---- MODULE Spec2Model ----
(***************************************************************************)
(* A model of app.py, the syzbot dashboard scraper.                        *)
(*                                                                         *)
(* Strings are sequences of tokens.  A token is either one of the          *)
(* substrings the code looks for ("tag=", "&", "/", ".raw", ".tar.gz",     *)
(* " ", "-", ":") or an opaque piece of text in which none of them occurs, *)
(* so Python's str.split, str.replace and `in` act on whole tokens.        *)
(*                                                                         *)
(* Four specifications share the definitions:                              *)
(*   Spec        a run of main(): the listing page, its pass, the bug      *)
(*               pages, with every fetch and every save_asset call;        *)
(*   SpecRate    the rate_limit wrapper around fetch_url, with a clock     *)
(*               (the wrapper delays a call and never changes its result,  *)
(*               so the runs of Spec are followed without the clock);      *)
(*   SpecName    download_single_asset's name, file name and mode for      *)
(*               every short URL;                                          *)
(*   SpecWrites  save_asset calls one after the other, on the paths the    *)
(*               pages of a run give them.                                 *)
(*                                                                         *)
(* The site is the environment: what a fetch returns is chosen when the    *)
(* fetch is made.  Page titles are taken to be usable directory names, so  *)
(* Path.mkdir(parents=True, exist_ok=True) at app.py:104 does not raise;   *)
(* the clock of time.time() does not run backwards.                        *)
(***************************************************************************)
EXTENDS Integers, Sequences, FiniteSets, TLC

VARIABLES
    \* ---- main(): the run
    release,        \* --release, app.py:225
    pc,             \* position of main() / download_assets()
    exit_code,      \* -1 while running, then the process exit status
    soup,           \* the listing page as parsed at app.py:250
    bug_links,      \* app.py:257
    bug_idx,        \* 0 = the listing page pass, k = k-th bug link
    failed_urls,    \* app.py:259
    \* ---- download_assets(): the page being processed
    page,           \* the page as parsed at app.py:170 (NoPage before)
    output_dir,     \* app.py:179
    asset_links,    \* app.py:180
    link_idx,       \* number of links of asset_links already attempted
    success_count,  \* app.py:186
    \* ---- the file system below ./output/<release>
    fs,             \* <<directory, file name>> -> content, for the files that exist
    \* ---- observations of the run (history)
    prev_fetch, last_fetch,  \* the two most recent fetch_url calls of the run
    attempts,       \* bug link index -> number of download_assets calls made for it
    fetch_calls,    \* per link of the current page: fetch_url calls made for it
    save_calls,     \* per link of the current page: save_asset calls made for it
    outcomes,       \* per link of the current page: what download_single_asset returned
    page_status,    \* how the current download_assets pass got past app.py:166-184
    page_result,    \* what the latest finished download_assets pass returned
    bug_results,    \* what download_assets returned for each bug link so far
    responded,      \* per link of the current page: whether its fetch returned a response
    listing_failed, \* TRUE once the listing fetch or the listing page's pass has failed
    extracted,      \* TRUE once extract_bug_links has returned
    raised,         \* TRUE when main() left through its except clause
    unanswered,     \* TRUE when some request that was sent got no answer
    \* ---- rate_limit(): the wrapper around fetch_url
    clock,          \* time.time()
    last_called,    \* app.py:52, a dict: DOMAIN is {} or {"fetch_url"}
    rl_pc,          \* position inside wrapper()
    rl_kind,        \* what the invocation in progress fetches (listing, page, asset)
    rl_now,         \* app.py:57
    rl_calls,       \* number of invocations started
    rl_slept,       \* the sleep this invocation asked for at app.py:62
    get_at,         \* when this invocation issued its GET
    ret_at,         \* when this invocation's func returned
    prev_ret,       \* when the previous invocation's func returned (-1: none)
    \* ---- save_asset() calls observed one by one
    last_ok,        \* path -> what the latest successful save_asset wrote there
    torn,           \* paths where a later save_asset failed after opening the file
    writers,        \* path -> the page titles whose assets were written there
    writes,         \* number of save_asset calls made
    last_write,     \* the latest save_asset call: its path, what the file held before,
                    \* the data to write, how the I/O went, and the value returned
    \* ---- download_single_asset() on one URL
    dsa_url, dsa_pc, dsa_name, dsa_file, dsa_binary

mainVars == <<release, pc, exit_code, soup, bug_links, bug_idx, failed_urls, page, output_dir,
              asset_links, link_idx, success_count, fs, prev_fetch, last_fetch,
              attempts, fetch_calls, save_calls, outcomes, page_status, page_result,
              bug_results,              responded, listing_failed, extracted, raised, unanswered>>
wrVars   == <<last_ok, torn, writers, writes, last_write>>
rateVars == <<clock, last_called, rl_pc, rl_kind, rl_now, rl_calls, rl_slept, get_at,
              ret_at, prev_ret>>
dsaVars  == <<dsa_url, dsa_pc, dsa_name, dsa_file, dsa_binary>>
vars     == <<mainVars, wrVars, rateVars, dsaVars>>

----------------------------------------------------------------------------
(* Bounds of the model *)

MaxBugs   == 2    \* data rows of the listing table
MaxLinks  == 2    \* anchors of one page's "assets" and "repro" cells together
MaxUrlLen == 3    \* tokens of a URL handed to download_single_asset alone
MaxCalls  == 3    \* fetch_url invocations followed through the rate limiter
MaxWrites == 3    \* save_asset calls followed one by one
MaxTime   == 9    \* the clock stops advancing here

----------------------------------------------------------------------------
(* Python's string operations on token sequences *)

RECURSIVE SplitFrom(_, _, _, _)
\* str.split(sep): cur is the piece being collected, acc the pieces before it
SplitFrom(s, sep, cur, acc) ==
    IF s = <<>> THEN Append(acc, cur)
    ELSE IF Head(s) = sep THEN SplitFrom(Tail(s), sep, <<>>, Append(acc, cur))
    ELSE SplitFrom(Tail(s), sep, Append(cur, Head(s)), acc)

Split(s, sep) == SplitFrom(s, sep, <<>>, <<>>)

First(parts) == parts[1]              \* [0]
Last(parts)  == parts[Len(parts)]     \* [-1]

Contains(s, tok) == \E i \in 1..Len(s) : s[i] = tok      \* tok in s

Replace(s, old, new) == [i \in 1..Len(s) |-> IF s[i] = old THEN new ELSE s[i]]

----------------------------------------------------------------------------
(* Program constants *)

BASE_URL == <<"https:", "/", "/", "syzkaller.appspot.com">>     \* app.py:24
UPSTREAM == BASE_URL \o <<"/", "upstream">>                     \* app.py:25
LTS_5_15 == BASE_URL \o <<"/", "linux", "-", "5.15">>           \* app.py:26
LTS_6_1  == BASE_URL \o <<"/", "linux", "-", "6.1">>            \* app.py:27

min_interval == 2                                               \* app.py:69

\* the releases the runs are followed for
RunReleases == { <<"lts", "-", "6.1">> }

Releases == { <<"upstream">>, <<"lts", "-", "5.15">>, <<"lts", "-", "6.1">> }

\* app.py:234-239
ReleaseUrl(rel) ==
    IF rel = <<"upstream">> THEN UPSTREAM
    ELSE IF rel = <<"lts", "-", "5.15">> THEN LTS_5_15
    ELSE LTS_6_1

----------------------------------------------------------------------------
(* What the site can serve *)

None     == [none |-> TRUE]        \* fetch_url returned None
Response(body) == [text |-> body]  \* fetch_url returned a response
NoTitle  == <<"<no title>">>       \* soup.title is None
NoAnchor == <<"<no anchor>">>      \* a table row without <td class="title"><a href>
NoPage   == [none |-> TRUE]        \* nothing parsed yet
NoFetch  == [page |-> -1, idx |-> -1, url |-> <<>>]
Absent   == <<"<absent>">>          \* in place of the content of a file that does not exist
NoWrite  == [path |-> <<>>, before |-> Absent, data |-> <<>>, io |-> "none", result |-> FALSE]

\* page titles: two that sanitize to the same directory name
Titles == { <<"a", " ", "b">>, <<"a", "-", "b">> }

\* the title the pages of the runs carry, when they carry one
RunTitles == { <<"a", "-", "b">> }

BadByte == "\\xff"         \* a byte that is not valid UTF-8
Contents == { <<"A">>, <<"B", BadByte>> }     \* response bodies of assets

RelRaw  == <<"/", "download?", "tag=", "crash", ".raw">>
AbsRaw  == <<"https:", "/", "/", "storage", "/", "f?", "tag=", "d", "/", "crash", ".raw", "&", "k">>
AssetHrefs == { RelRaw, AbsRaw }     \* hrefs met in "assets" cells
ReproHrefs == { RelRaw }              \* hrefs met in "repro" cells

\* the bugs a listing table can link, each at most once
BugIds   == <<"1", "2", "3", "4">>
BugHrefs == [i \in 1..MaxBugs |-> <<"/", "bug?id=", BugIds[i]>>]

RECURSIVE SeqsUpTo(_, _)
SeqsUpTo(S, n) ==
    IF n = 0 THEN { <<>> }
    ELSE LET shorter == SeqsUpTo(S, n - 1)
         IN  shorter \cup { Append(q, x) : q \in shorter, x \in S }

\* a page as download_assets reads it: its title and the anchors of its cells
PageSoups ==
    { [title |-> t, assets |-> a, repro |-> r] :
        t \in RunTitles \cup {NoTitle},
        a \in SeqsUpTo(AssetHrefs, MaxLinks),
        r \in SeqsUpTo(ReproHrefs, MaxLinks) }

BoundedPageSoups == { p \in PageSoups : Len(p.assets) + Len(p.repro) <= MaxLinks }

Reverse(q) == [i \in 1..Len(q) |-> q[Len(q) + 1 - i]]

\* the data rows of a listing table: the first k bugs, newest first or oldest
\* first, and the same with one row that lacks its title anchor
DataRows ==
    LET whole == { SubSeq(BugHrefs, 1, k) : k \in 0..MaxBugs }
                    \cup { Reverse(SubSeq(BugHrefs, 1, k)) : k \in 0..MaxBugs }
    IN  whole \cup UNION { { [rows EXCEPT ![i] = NoAnchor] : i \in 1..Len(rows) } :
                            rows \in whole }

\* the listing page as extract_bug_links reads it: its number of <tbody>
\* elements and the <tr> of the second one, the header row first
ListingSoups ==
    { [tbodies |-> n, trs |-> <<NoAnchor>> \o rows] : n \in {1, 2}, rows \in DataRows }

----------------------------------------------------------------------------
(* fetch_url, app.py:69-81 *)

HasScheme(url) == Len(url) >= 1 /\ url[1] = "https:"

\* What fetch_url(url) can return when the site would serve one of `bodies`.
\* requests.get raises MissingSchema, a RequestException, for a URL without
\* a scheme before anything is sent: the except clause turns it into None.
fetch_url(url, bodies) ==
    IF HasScheme(url) THEN {None} \cup { Response(b) : b \in bodies } ELSE {None}

----------------------------------------------------------------------------
(* The pure helpers *)

\* app.py:83-90
sanitize_directory_name(title) ==
    Replace(Replace(Replace(Replace(title, " ", "_"), "-", "_"), "/", "_"), ":", "_")

\* app.py:92-105: the path of the directory (created with exist_ok=True)
create_output_directory(dir_name, rel) ==
    <<"output", Replace(rel, "-", "_"), dir_name>>

\* a variant that collects the "repro" cells before the "assets" cells
extract_asset_links_repro_first(p) ==
    [i \in 1..Len(p.repro) |-> BASE_URL \o p.repro[i]] \o p.assets

\* app.py:107-123
extract_asset_links(p) ==
    p.assets \o [i \in 1..Len(p.repro) |-> BASE_URL \o p.repro[i]]

\* a variant that guards the rows: a row without a title anchor does not raise
ExtractRaisesOnTableOnly(s) == s.tbodies < 2

\* app.py:206-210: the lookups that raise
ExtractRaises(s) ==
    \/ s.tbodies < 2                                        \* IndexError
    \/ \E i \in 2..Len(s.trs) : s.trs[i] = NoAnchor         \* AttributeError / TypeError

\* app.py:199-216: the links (the second value returned)
extract_bug_links(s) ==
    [i \in 1..(Len(s.trs) - 1) |-> BASE_URL \o s.trs[i + 1]]

\* app.py:148
AssetName(url) == First(Split(Last(Split(url, "tag=")), "&"))

\* a variant with the always-true test  ".raw" or ".tar.gz" in name
IsBinaryAlways(name) == TRUE

\* app.py:155
IsBinary(name) == Contains(name, ".raw") \/ Contains(name, ".tar.gz")

\* app.py:131: name.split('/')[-1]
FileName(name) == Last(Split(name, "/"))

\* app.py:137: content.decode('utf-8', errors="ignore")
Decode(content) == SelectSeq(content, LAMBDA b : b # BadByte)

\* app.py:134-137: what save_asset writes
Written(content, is_binary) == IF is_binary THEN content ELSE Decode(content)

----------------------------------------------------------------------------
(* The run: main() and download_assets() *)

InitRun ==
    /\ release \in RunReleases
    /\ pc = "main_fetch"
    /\ exit_code = -1
    /\ soup = NoPage
    /\ bug_links = <<>>
    /\ bug_idx = 0
    /\ failed_urls = <<>>
    /\ page = NoPage
    /\ output_dir = <<>>
    /\ asset_links = <<>>
    /\ link_idx = 0
    /\ success_count = 0
    /\ fs = <<>>
    /\ prev_fetch = NoFetch
    /\ last_fetch = NoFetch
    /\ attempts = <<>>
    /\ fetch_calls = <<>>
    /\ save_calls = <<>>
    /\ outcomes = <<>>
    /\ page_status = "none"
    /\ page_result = FALSE
    /\ bug_results = <<>>
    /\ responded = <<>>
    /\ listing_failed = FALSE
    /\ extracted = FALSE
    /\ raised = FALSE
    /\ unanswered = FALSE

InitWrites ==
    /\ last_ok = <<>>
    /\ torn = {}
    /\ writers = <<>>
    /\ writes = 0
    /\ last_write = NoWrite

\* app.py:52: last_called = {}
InitRate ==
    /\ clock = 0
    /\ last_called = <<>>
    /\ rl_pc = "idle"
    /\ rl_kind = "none"
    /\ rl_now = 0
    /\ rl_calls = 0
    /\ rl_slept = 0
    /\ get_at = -1
    /\ ret_at = -1
    /\ prev_ret = -1

InitDsa ==
    /\ dsa_url = <<>>
    /\ dsa_pc = "idle"
    /\ dsa_name = <<>>
    /\ dsa_file = <<>>
    /\ dsa_binary = FALSE

Init == InitRun /\ InitWrites /\ InitRate /\ InitDsa

\* one more fetch_url call of the run: which page, which link of it (-1: the
\* fetch of main() itself, 0: the page, i: its i-th asset link), which URL
Fetched(pg, idx, url, r) ==
    /\ prev_fetch' = last_fetch
    /\ last_fetch' = [page |-> pg, idx |-> idx, url |-> url]
    /\ unanswered' = (unanswered \/ (HasScheme(url) /\ r = None))

\* sys.exit(code), app.py:248, 254, 271
Exit(code) ==
    /\ pc' = "done"
    /\ exit_code' = code

\* app.py:244-250
MainFetch ==
    /\ pc = "main_fetch"
    /\ \E r \in fetch_url(ReleaseUrl(release), ListingSoups) :
        /\ Fetched(0, -1, ReleaseUrl(release), r)
        /\ IF r = None
           THEN Exit(1) /\ listing_failed' = TRUE /\ UNCHANGED soup
           ELSE /\ soup' = r.text
                /\ pc' = "page_fetch"
                /\ UNCHANGED <<exit_code, listing_failed>>
    /\ UNCHANGED <<release, bug_links, bug_idx, failed_urls, page, output_dir, asset_links,
                   link_idx, success_count, fs, attempts, fetch_calls, save_calls,
                   outcomes, page_status, page_result, bug_results, responded, extracted,
                   raised>>
    /\ UNCHANGED <<wrVars, rateVars, dsaVars>>

\* the url argument of the download_assets call in progress, app.py:252, 262
PageUrl == IF bug_idx = 0 THEN ReleaseUrl(release) ELSE bug_links[bug_idx]

\* app.py:174-177
DirName(p, is_main_page) ==
    IF is_main_page THEN <<"main_page">> ELSE sanitize_directory_name(p.title)

\* download_assets returns `result`; bug pages' results are recorded
Returns(result, status) ==
    /\ page_result' = result
    /\ page_status' = status
    /\ pc' = "page_return"
    /\ bug_results' = IF bug_idx = 0 THEN bug_results ELSE Append(bug_results, result)
    /\ listing_failed' = (listing_failed \/ (bug_idx = 0 /\ ~result))

\* app.py:166-186: download_assets up to the loop over the links
PageFetch ==
    /\ pc = "page_fetch"
    /\ attempts' = [i \in DOMAIN attempts |->
                        IF i = bug_idx THEN attempts[i] + 1 ELSE attempts[i]]
    /\ \E r \in fetch_url(PageUrl, BoundedPageSoups) :
        /\ Fetched(bug_idx, 0, PageUrl, r)
        /\ IF r = None
           THEN /\ Returns(FALSE, "no_response")
                /\ page' = NoPage
                /\ UNCHANGED <<output_dir, asset_links>>
           ELSE IF r.text.title = NoTitle
           THEN /\ Returns(FALSE, "no_title")
                /\ page' = NoPage
                /\ UNCHANGED <<output_dir, asset_links>>
           ELSE /\ page' = r.text
                /\ output_dir' = create_output_directory(DirName(r.text, bug_idx = 0), release)
                /\ asset_links' = extract_asset_links(r.text)
                /\ IF extract_asset_links(r.text) = <<>>
                   THEN Returns(TRUE, "no_assets")
                   ELSE /\ pc' = "asset_loop"
                        /\ page_status' = "assets"
                        /\ UNCHANGED <<page_result, bug_results, listing_failed>>
    /\ link_idx' = 0
    /\ success_count' = 0
    /\ fetch_calls' = <<>>
    /\ save_calls' = <<>>
    /\ outcomes' = <<>>
    /\ responded' = <<>>
    /\ UNCHANGED <<release, exit_code, soup, bug_links, bug_idx, failed_urls, fs,
                   extracted, raised>>
    /\ UNCHANGED <<wrVars, rateVars, dsaVars>>

\* os.path.join(output_dir, name.split('/')[-1]), app.py:131
FilePath(dir, name) == <<dir, FileName(name)>>

\* How open() and write() of app.py:132-137 can end for a path.  An empty file
\* name joins to the directory itself, which cannot be opened for writing.
IoOutcomes(path) ==
    IF path[2] = <<>> THEN {"open_fails"} ELSE {"ok", "open_fails", "write_fails"}

\* app.py:125-141: the return value of save_asset
save_asset_returns(io) == (io = "ok")

\* a variant that opens the file in append mode
save_asset_appending(files, path, data, io) ==
    CASE io = "ok"          ->
            { (path :> ((IF path \in DOMAIN files THEN files[path] ELSE <<>>) \o data))
              @@ files }
      [] io = "open_fails"  -> { files }
      [] io = "write_fails" -> { files }

\* app.py:129-141: the file systems save_asset can leave behind.  open() in
\* mode "w+"/"wb+" creates or truncates the file; a write that fails after that
\* leaves none or part of the data in it.
save_asset(files, path, data, io) ==
    CASE io = "ok"          -> { (path :> data) @@ files }
      [] io = "open_fails"  -> { files }
      [] io = "write_fails" ->
            { (path :> SubSeq(data, 1, k)) @@ files :
                k \in 0..(IF data = <<>> THEN 0 ELSE Len(data) - 1) }

\* a variant that returns before saving
SaveCallsNever(r) == 0

\* app.py:150-156: the save_asset calls download_single_asset makes for a fetch result
SaveCalls(r) == IF r = None THEN 0 ELSE 1

\* a variant that wants every link to succeed
PageResultAllOrNothing(count, links) == count = Len(links)

\* app.py:193-197: the return value of download_assets after the loop
PageResult(count, links) == ~(count = 0 /\ links # <<>>)

\* app.py:187-191 with download_single_asset (143-156) and save_asset (125-141):
\* one round of the loop over asset_links
AssetDownload ==
    /\ pc = "asset_loop"
    /\ link_idx < Len(asset_links)
    /\ LET link == asset_links[link_idx + 1]
           name == AssetName(link)
           path == FilePath(output_dir, name)
       IN  \E r \in fetch_url(link, Contents) :
            /\ Fetched(bug_idx, link_idx + 1, link, r)
            /\ fetch_calls' = Append(fetch_calls, 1)
            /\ responded' = Append(responded, r # None)
            /\ save_calls' = Append(save_calls, SaveCalls(r))
            /\ IF SaveCalls(r) = 0
               THEN /\ outcomes' = Append(outcomes, FALSE)
                    /\ UNCHANGED <<fs, success_count>>
               ELSE \E io \in IoOutcomes(path) :
                    LET data == Written(r.text, IsBinary(name))
                        ok   == save_asset_returns(io)
                    IN  /\ outcomes' = Append(outcomes, ok)
                        /\ success_count' = IF ok THEN success_count + 1 ELSE success_count
                        /\ fs' \in save_asset(fs, path, data, io)
    /\ link_idx' = link_idx + 1
    /\ UNCHANGED <<release, pc, exit_code, soup, bug_links, bug_idx, failed_urls, page,
                   output_dir, asset_links, attempts, page_status, page_result,
                   bug_results, listing_failed, extracted, raised>>
    /\ UNCHANGED <<wrVars, rateVars, dsaVars>>

\* app.py:193-197: download_assets after the loop
PageFinish ==
    /\ pc = "asset_loop"
    /\ link_idx = Len(asset_links)
    /\ Returns(PageResult(success_count, asset_links), "assets")
    /\ UNCHANGED <<release, exit_code, soup, bug_links, bug_idx, failed_urls, page,
                   output_dir, asset_links, link_idx, success_count, fs, prev_fetch,
                   last_fetch, attempts, fetch_calls, save_calls, outcomes, responded,
                   extracted, raised, unanswered>>
    /\ UNCHANGED <<wrVars, rateVars, dsaVars>>

\* a variant that goes on after a failed listing pass
MainAfterListingGoesOn ==
    /\ pc = "page_return"
    /\ bug_idx = 0
    /\ pc' = "extract"
    /\ UNCHANGED <<release, exit_code, soup, bug_links, bug_idx, failed_urls, page, output_dir,
                   asset_links, link_idx, success_count, fs, prev_fetch, last_fetch,
                   attempts, fetch_calls, save_calls, outcomes, page_status, page_result,
                   bug_results, responded, listing_failed, extracted, raised, unanswered>>
    /\ UNCHANGED <<wrVars, rateVars, dsaVars>>

\* app.py:252-254
MainAfterListing ==
    /\ pc = "page_return"
    /\ bug_idx = 0
    /\ IF page_result = FALSE
       THEN Exit(1)
       ELSE pc' = "extract" /\ UNCHANGED exit_code
    /\ UNCHANGED <<release, soup, bug_links, bug_idx, failed_urls, page, output_dir,
                   asset_links, link_idx, success_count, fs, prev_fetch, last_fetch,
                   attempts, fetch_calls, save_calls, outcomes, page_status, page_result,
                   bug_results, responded, listing_failed, extracted, raised, unanswered>>
    /\ UNCHANGED <<wrVars, rateVars, dsaVars>>

\* app.py:257-260, and 266-271 when there is nothing to loop over or the
\* extraction raises
ExtractBugLinks ==
    /\ pc = "extract"
    /\ IF ExtractRaises(soup)
       THEN /\ raised' = TRUE
            /\ Exit(1)
            /\ UNCHANGED <<bug_links, bug_idx, attempts, extracted>>
       ELSE /\ bug_links' = extract_bug_links(soup)
            /\ attempts' = [i \in 1..Len(extract_bug_links(soup)) |-> 0]
            /\ extracted' = TRUE
            /\ UNCHANGED raised
            /\ IF extract_bug_links(soup) = <<>>
               THEN Exit(0) /\ UNCHANGED bug_idx
               ELSE /\ bug_idx' = 1
                    /\ pc' = "page_fetch"
                    /\ UNCHANGED exit_code
    /\ UNCHANGED <<release, soup, failed_urls, page, output_dir, asset_links, link_idx,
                   success_count, fs, prev_fetch, last_fetch, fetch_calls, save_calls,
                   outcomes, page_status, page_result, bug_results, responded,
                   listing_failed, unanswered>>
    /\ UNCHANGED <<wrVars, rateVars, dsaVars>>

\* a variant that gives up at the first bug page that fails
MainAfterBugStopsAtFailure ==
    /\ pc = "page_return"
    /\ bug_idx >= 1
    /\ failed_urls' = IF page_result = FALSE
                      THEN Append(failed_urls, bug_links[bug_idx])
                      ELSE failed_urls
    /\ IF page_result = FALSE
       THEN Exit(1) /\ UNCHANGED bug_idx
       ELSE IF bug_idx < Len(bug_links)
       THEN /\ bug_idx' = bug_idx + 1
            /\ pc' = "page_fetch"
            /\ UNCHANGED exit_code
       ELSE Exit(0) /\ UNCHANGED bug_idx
    /\ UNCHANGED <<release, soup, bug_links, page, output_dir, asset_links, link_idx,
                   success_count, fs, prev_fetch, last_fetch, attempts, fetch_calls,
                   save_calls, outcomes, page_status, page_result, bug_results, responded,
                   listing_failed, extracted, raised, unanswered>>
    /\ UNCHANGED <<wrVars, rateVars, dsaVars>>

\* app.py:260-267: main() after download_assets returned for a bug link
MainAfterBug ==
    /\ pc = "page_return"
    /\ bug_idx >= 1
    /\ failed_urls' = IF page_result = FALSE
                      THEN Append(failed_urls, bug_links[bug_idx])
                      ELSE failed_urls
    /\ IF bug_idx < Len(bug_links)
       THEN /\ bug_idx' = bug_idx + 1
            /\ pc' = "page_fetch"
            /\ UNCHANGED exit_code
       ELSE Exit(0) /\ UNCHANGED bug_idx
    /\ UNCHANGED <<release, soup, bug_links, page, output_dir, asset_links, link_idx,
                   success_count, fs, prev_fetch, last_fetch, attempts, fetch_calls,
                   save_calls, outcomes, page_status, page_result, bug_results, responded,
                   listing_failed, extracted, raised, unanswered>>
    /\ UNCHANGED <<wrVars, rateVars, dsaVars>>

Next ==
    \/ MainFetch
    \/ PageFetch
    \/ AssetDownload
    \/ PageFinish
    \/ MainAfterListing
    \/ ExtractBugLinks
    \/ MainAfterBug

Spec == Init /\ [][Next]_vars

----------------------------------------------------------------------------
(* save_asset() calls, one by one *)

AbsText == <<"https:", "/", "/", "storage", "/", "f?", "tag=", "log.txt">>
WriteLinks == { BASE_URL \o RelRaw, AbsRaw, AbsText }

\* A page's download pass saves one asset: the directory comes from the page
\* (app.py:174-179), the file name from the link (app.py:148, 131), the mode
\* from the name (app.py:155), as in AssetDownload.
SaveAsset ==
    /\ writes < MaxWrites
    /\ \E is_main_page \in BOOLEAN, t \in Titles, link \in WriteLinks, content \in Contents :
        LET dir  == create_output_directory(DirName([title |-> t], is_main_page), release)
            name == AssetName(link)
            path == FilePath(dir, name)
            data == Written(content, IsBinary(name))
            who  == IF is_main_page THEN <<"main_page">> ELSE t
        IN  \E io \in IoOutcomes(path) :
             /\ fs' \in save_asset(fs, path, data, io)
             /\ last_write' = [path |-> path,
                               before |-> IF path \in DOMAIN fs THEN fs[path] ELSE Absent,
                               data |-> data, io |-> io,
                               result |-> save_asset_returns(io)]
             /\ CASE io = "ok" ->
                       /\ last_ok' = (path :> data) @@ last_ok
                       /\ torn' = torn \ {path}
                       /\ writers' = (path :> ((IF path \in DOMAIN writers
                                                THEN writers[path] ELSE {}) \cup {who}))
                                     @@ writers
                  [] io = "open_fails" ->
                       UNCHANGED <<last_ok, torn, writers>>
                  [] io = "write_fails" ->
                       /\ torn' = torn \cup {path}
                       /\ UNCHANGED <<last_ok, writers>>
    /\ writes' = writes + 1
    /\ UNCHANGED <<release, pc, exit_code, soup, bug_links, bug_idx, failed_urls, page,
                   output_dir, asset_links, link_idx, success_count, prev_fetch,
                   last_fetch, attempts, fetch_calls, save_calls, outcomes, page_status,
                   page_result, bug_results, responded, listing_failed, extracted, raised,
                   unanswered>>
    /\ UNCHANGED <<rateVars, dsaVars>>

NextWrites == SaveAsset

SpecWrites == Init /\ [][NextWrites]_vars

----------------------------------------------------------------------------
(* download_single_asset() on one URL: the name, the file, the mode *)

UrlTokens == { "tag=", "&", "/", ".raw", ".tar.gz", "x" }

InitName ==
    /\ InitRun
    /\ InitWrites
    /\ InitRate
    /\ dsa_url \in SeqsUpTo(UrlTokens, MaxUrlLen)
    /\ dsa_pc = "idle"
    /\ dsa_name = <<>>
    /\ dsa_file = <<>>
    /\ dsa_binary = FALSE

\* app.py:148, 155 and 130-131
NameAsset ==
    /\ dsa_pc = "idle"
    /\ dsa_name' = AssetName(dsa_url)
    /\ dsa_binary' = IsBinary(AssetName(dsa_url))
    /\ dsa_file' = FileName(AssetName(dsa_url))
    /\ dsa_pc' = "named"
    /\ UNCHANGED <<dsa_url, mainVars, wrVars, rateVars>>

NextName == NameAsset

SpecName == InitName /\ [][NextName]_vars

----------------------------------------------------------------------------
(* rate_limit(): the wrapper around fetch_url, app.py:50-70 *)

Key == "fetch_url"      \* app.py:58: func.__name__, whatever the URL

\* app.py:59-62: the sleep wrapper() asks for
SleepFor(now, called) ==
    IF Key \in DOMAIN called /\ now - called[Key] < min_interval
    THEN min_interval - (now - called[Key])
    ELSE 0

\* app.py:57-58: an invocation starts and reads the clock
RlEnter ==
    /\ rl_pc = "idle"
    /\ rl_calls < MaxCalls
    /\ \E kind \in {"listing", "page", "asset"} : rl_kind' = kind
    /\ rl_now' = clock
    /\ rl_calls' = rl_calls + 1
    /\ rl_slept' = 0
    /\ prev_ret' = ret_at
    /\ rl_pc' = "entered"
    /\ UNCHANGED <<clock, last_called, get_at, ret_at>>
    /\ UNCHANGED <<mainVars, wrVars, dsaVars>>

\* app.py:59-62: time.sleep(d) returns after at least d
RlWait ==
    /\ rl_pc = "entered"
    /\ LET d == SleepFor(rl_now, last_called)
       IN  /\ rl_slept' = d
           /\ \E late \in 0..(IF d > 0 THEN 1 ELSE 0) : clock' = clock + d + late
    /\ rl_pc' = "ready"
    /\ UNCHANGED <<last_called, rl_kind, rl_now, rl_calls, get_at, ret_at, prev_ret>>
    /\ UNCHANGED <<mainVars, wrVars, dsaVars>>

\* app.py:63: func(*args, **kwargs), the GET of app.py:75, which takes time
RlCall ==
    /\ rl_pc = "ready"
    /\ get_at' = clock
    /\ \E took \in 0..1 :
        /\ clock' = clock + took
        /\ ret_at' = clock + took
    /\ rl_pc' = "returned"
    /\ UNCHANGED <<last_called, rl_kind, rl_now, rl_calls, rl_slept, prev_ret>>
    /\ UNCHANGED <<mainVars, wrVars, dsaVars>>

\* a variant that records the time read on entry instead of the time of return
RlStampEntryTime ==
    /\ rl_pc = "returned"
    /\ last_called' = (Key :> rl_now) @@ last_called
    /\ rl_pc' = "idle"
    /\ UNCHANGED <<clock, rl_kind, rl_now, rl_calls, rl_slept, get_at, ret_at, prev_ret>>
    /\ UNCHANGED <<mainVars, wrVars, dsaVars>>

\* app.py:64-65
RlStamp ==
    /\ rl_pc = "returned"
    /\ last_called' = (Key :> clock) @@ last_called
    /\ rl_pc' = "idle"
    /\ UNCHANGED <<clock, rl_kind, rl_now, rl_calls, rl_slept, get_at, ret_at, prev_ret>>
    /\ UNCHANGED <<mainVars, wrVars, dsaVars>>

\* time passes between any two steps, and between two invocations
Tick ==
    /\ clock < MaxTime
    /\ clock' = clock + 1
    /\ UNCHANGED <<last_called, rl_pc, rl_kind, rl_now, rl_calls, rl_slept, get_at, ret_at,
                   prev_ret>>
    /\ UNCHANGED <<mainVars, wrVars, dsaVars>>

NextRate ==
    \/ RlEnter
    \/ RlWait
    \/ RlCall
    \/ RlStamp
    \/ Tick

SpecRate == Init /\ [][NextRate]_vars

----------------------------------------------------------------------------
(* Claims about the run *)

RECURSIVE FailedAmong(_, _, _)
\* the links among the first n whose download_assets pass returned False
FailedAmong(links, results, n) ==
    IF n = 0 THEN <<>>
    ELSE IF results[n] = FALSE
         THEN Append(FailedAmong(links, results, n - 1), links[n])
         ELSE FailedAmong(links, results, n - 1)

C2_ListingFailureIsFatal ==
    listing_failed =>
        /\ pc \in {"page_return", "done"}
        /\ pc = "done" => exit_code # 0
        /\ bug_idx = 0
        /\ attempts = <<>>
        /\ last_fetch.page = 0
        /\ ~extracted

\* the listing was fetched, its own pass failed, and the run ended with status 1
C2_Witness ==
    /\ listing_failed
    /\ soup # NoPage
    /\ page_status = "assets"
    /\ pc = "done"
    /\ exit_code = 1

\* the number of links the page in hand holds in its "assets" and "repro" cells
LinksOnPage == IF page = NoPage THEN 0 ELSE Len(page.assets) + Len(page.repro)

\* C3: download_assets returns False exactly when the page fetch returned no
\* response, the page has no title, or at least one link was extracted and
\* every one failed; it returns True with zero links and with at least one
\* success; every extracted link is attempted once, the earlier failures
\* notwithstanding.
C3_PageResult ==
    pc = "page_return" =>
        LET no_response == page_status = "no_response"
            no_title    == page_status = "no_title"
            all_failed  == /\ LinksOnPage >= 1
                           /\ \A i \in 1..Len(outcomes) : outcomes[i] = FALSE
        IN  /\ page_result = ~(no_response \/ no_title \/ all_failed)
            /\ ~(no_response \/ no_title) =>
                  /\ Len(outcomes) = LinksOnPage
                  /\ fetch_calls = [i \in 1..LinksOnPage |-> 1]

\* partial success: the first link failed, the second was still attempted and
\* succeeded, and the page counts as a success
C3_Witness ==
    /\ pc = "page_return"
    /\ outcomes = <<FALSE, TRUE>>
    /\ page_result = TRUE

\* the links of a page in the order the claim gives: the "assets" hrefs as they
\* are, then the "repro" hrefs behind the site origin
LinksInClaimedOrder(p) ==
    [i \in 1..(Len(p.assets) + Len(p.repro)) |->
        IF i <= Len(p.assets) THEN p.assets[i]
        ELSE BASE_URL \o p.repro[i - Len(p.assets)]]

\* C5: the fetches of a run come in a fixed order: the listing page, its pass
\* and its assets, then the bug pages in the order of the rows of the listing
\* table, each followed by its own assets before the next bug page is fetched,
\* the "assets" links before the "repro" links, each group in document order.
C5_FetchOrder ==
    /\ (last_fetch # NoFetch /\ prev_fetch = NoFetch) =>
          last_fetch = [page |-> 0, idx |-> -1, url |-> ReleaseUrl(release)]
    /\ prev_fetch # NoFetch =>
          \/ /\ last_fetch.page = prev_fetch.page
             /\ last_fetch.idx = prev_fetch.idx + 1
          \/ /\ last_fetch.page = prev_fetch.page + 1
             /\ last_fetch.idx = 0
             /\ prev_fetch.idx >= 0
    /\ (last_fetch.page >= 1 /\ last_fetch.idx = 0) =>
          last_fetch.url = BASE_URL \o soup.trs[last_fetch.page + 1]
    /\ last_fetch.idx >= 1 =>
          /\ page # NoPage
          /\ last_fetch.idx <= LinksOnPage
          /\ last_fetch.url = LinksInClaimedOrder(page)[last_fetch.idx]
    /\ (pc = "page_fetch" /\ bug_idx >= 1 /\ last_fetch.idx >= 1) =>
          last_fetch.idx = LinksOnPage

\* the second bug page's second link, a "repro" link, fetched after its
\* "assets" link
C5_Witness ==
    /\ last_fetch.page = 2
    /\ last_fetch.idx = 2
    /\ page # NoPage
    /\ Len(page.assets) = 1
    /\ Len(page.repro) = 1
    /\ prev_fetch.url = page.assets[1]

\* C6 as stated: every extracted asset link yields exactly one save_asset call
\* during the page's pass.
C6_OneWritePerLink ==
    (pc = "page_return" /\ page_status = "assets") =>
        save_calls = [i \in 1..LinksOnPage |-> 1]

\* C6 amended: every extracted asset link yields exactly one fetch, and one
\* save_asset call when that fetch returned a response, none when it did not.
C6_OneWritePerFetchedLink ==
    (pc = "page_return" /\ page_status = "assets") =>
        /\ fetch_calls = [i \in 1..LinksOnPage |-> 1]
        /\ DOMAIN save_calls = 1..LinksOnPage
        /\ DOMAIN responded = 1..LinksOnPage
        /\ \A i \in 1..LinksOnPage :
              save_calls[i] = IF responded[i] THEN 1 ELSE 0

\* a page with two links of which one fetch was answered and one was not
C6_Witness ==
    /\ pc = "page_return"
    /\ page_status = "assets"
    /\ responded = <<TRUE, FALSE>>
    /\ save_calls = <<1, 0>>

\* C7: the listing table has one data row, the bug page it links has a title
\* and the single "assets" anchor /download?tag=crash.raw, and every request
\* sent is answered: the run leaves
\* output/<release>/<sanitized title>/crash.raw holding a response body and
\* exits 0.
C7_EndToEnd ==
    ( /\ pc = "done"
      /\ extracted
      /\ ~unanswered
      /\ soup.tbodies = 2
      /\ Len(soup.trs) = 2
      /\ bug_idx = 1
      /\ page # NoPage
      /\ page.assets = <<RelRaw>>
      /\ page.repro = <<>> )
    =>
    LET path == << <<"output", Replace(release, "-", "_"),
                     sanitize_directory_name(page.title)>>,
                   <<"crash", ".raw">> >>
    IN  /\ exit_code = 0
        /\ path \in DOMAIN fs
        /\ fs[path] \in Contents

\* what the claim calls a listing page that cannot be read
C9_Malformed(s) ==
    \/ s.tbodies < 2
    \/ \E i \in 2..Len(s.trs) : s.trs[i] = NoAnchor

----------------------------------------------------------------------------
(* Claims about the rate limiter *)

\* C4: the GET of an invocation is issued at least min_interval after the
\* previous invocation's call returned, whatever the two fetch; an invocation
\* made sooner sleeps for the remainder of the interval first, and the first
\* invocation of the run does not sleep.
C4_MinimumInterval ==
    /\ (rl_calls >= 2 /\ rl_pc \in {"returned", "idle"}) =>
          get_at >= prev_ret + min_interval
    /\ rl_calls = 1 => rl_slept = 0
    /\ (rl_calls >= 2 /\ rl_pc \in {"ready", "returned"}) =>
          LET elapsed == rl_now - last_called[Key]
          IN  rl_slept = IF elapsed < min_interval THEN min_interval - elapsed ELSE 0

\* a second invocation made right after the first: it slept, and its GET went
\* out exactly min_interval after the first one returned
C4_Witness ==
    /\ rl_calls = 2
    /\ rl_pc = "returned"
    /\ rl_slept = min_interval
    /\ get_at = prev_ret + min_interval

----------------------------------------------------------------------------
(* Claims about the asset name *)

LastIndexOf(s, tok) ==
    CHOOSE i \in 1..Len(s) : s[i] = tok /\ \A j \in (i + 1)..Len(s) : s[j] # tok

FirstIndexOf(s, tok) ==
    CHOOSE i \in 1..Len(s) : s[i] = tok /\ \A j \in 1..(i - 1) : s[j] # tok

\* the part of s after its last tok
AfterLast(s, tok) == SubSeq(s, LastIndexOf(s, tok) + 1, Len(s))

\* the part of s before its first tok, all of s when it has none
UpTo(s, tok) == IF Contains(s, tok) THEN SubSeq(s, 1, FirstIndexOf(s, tok) - 1) ELSE s

\* the final tok-separated segment of s
FinalSegment(s, tok) == IF Contains(s, tok) THEN AfterLast(s, tok) ELSE s

\* C8 as stated: the name is the part of the URL after tag= up to the next &,
\* and the whole URL when there is no tag=; the file is the final '/' segment
\* of the name; the name decides binary by containing .raw or .tar.gz.
C8_NameAsStated ==
    dsa_pc = "named" =>
        /\ dsa_name = IF Contains(dsa_url, "tag=")
                      THEN UpTo(AfterLast(dsa_url, "tag="), "&")
                      ELSE dsa_url
        /\ dsa_file = FinalSegment(dsa_name, "/")
        /\ dsa_binary = (Contains(dsa_name, ".raw") \/ Contains(dsa_name, ".tar.gz"))

\* C8 amended: the name is the part of the URL after its last tag= (of the
\* whole URL when there is no tag=) up to the next &; the rest as stated.
C8_NameUpToAmpersand ==
    dsa_pc = "named" =>
        /\ dsa_name = UpTo(IF Contains(dsa_url, "tag=")
                           THEN AfterLast(dsa_url, "tag=")
                           ELSE dsa_url, "&")
        /\ dsa_file = FinalSegment(dsa_name, "/")
        /\ dsa_binary = (Contains(dsa_name, ".raw") \/ Contains(dsa_name, ".tar.gz"))

\* a URL without tag= and with an &: the name stops at the &
C8_Witness ==
    /\ dsa_pc = "named"
    /\ dsa_url = <<"x", "&", ".raw">>
    /\ dsa_name = <<"x">>
    /\ dsa_binary = FALSE

----------------------------------------------------------------------------
(* Claims about the files *)

====
